---- MODULE Spec2Model ----
(***************************************************************************)
(* Model of the Afrikaans Agent MCP server (src/main.py): the process      *)
(* lifecycle (startup_event, shutdown_event), the three endpoints          *)
(* (/tools, /query, /health), Neo4jNode.query and the SSE generator of     *)
(* /query.                                                                 *)
(*                                                                         *)
(* Scheduling.  The handlers are coroutines of one asyncio event loop, so  *)
(* the code between two suspension points runs atomically.  The suspension *)
(* points of /query are `await request.json()`, every `yield` of           *)
(* generate_stream and `await asyncio.sleep(0.1)`.  Neo4jNode.query is a   *)
(* blocking call made on the loop's thread: its steps are modelled one by  *)
(* one (so that the open session is visible) and while a request is inside *)
(* it no other handler takes a step (Busy).                                *)
(*                                                                         *)
(* Library calls.  GraphDatabase.driver either returns a driver or raises  *)
(* (driver_raises, part of the environment).  driver.session() returns a   *)
(* session; session.run and the iteration of its result either yield the   *)
(* rows or raise.  Rows are JSON-serialisable mappings.                    *)
(***************************************************************************)
EXTENDS Naturals, Sequences, FiniteSets

VARIABLES
    env,              \* the process environment read by os.getenv
    driver_raises,    \* whether GraphDatabase.driver(...) raises in this environment
    app,              \* lifecycle of the process: "init", "running", "stopped"
    neo4j_node,       \* the module-level global neo4j_node
    drivers_created,  \* number of GraphDatabase.driver(...) calls that returned
    drivers_closed,   \* number of driver.close() calls
    sessions,         \* sessions currently open on the driver
    sessions_opened,  \* number of driver.session() calls so far
    req               \* per request: the handler's locals, position and output

vars == <<env, driver_raises, app, neo4j_node, drivers_created, drivers_closed,
          sessions, sessions_opened, req>>

-----------------------------------------------------------------------------
(* Bounds and input sets *)

\* Longest row list the database returns.
MaxRows == 2

\* The requests handled concurrently by the process.
Requests == {"req1", "req2"}

\* Python's None.
None == "<None>"

\* The object bound to neo4j_node by a successful Neo4jNode(...).
Node == "<Neo4jNode>"

\* A JSON array given where a string is expected (an unhashable Python list).
JsonArray == "<list>"

EnvNames == {"NEO4J_URI", "NEO4J_USERNAME", "NEO4J_PASSWORD"}

AllSet == [n \in EnvNames |-> "x"]

\* Environments: all three set, each one unset, one empty, none set.
Environments ==
    {AllSet}
    \cup {[AllSet EXCEPT ![n] = None] : n \in EnvNames}
    \cup {[AllSet EXCEPT !["NEO4J_PASSWORD"] = ""], [n \in EnvNames |-> None]}

\* The k-th row of the database.
Row(k) == [id |-> k]

RECURSIVE SubSeqs(_)
\* The order-preserving selections of rows Row(1) .. Row(n).
SubSeqs(n) ==
    IF n = 0 THEN {<<>>}
    ELSE LET S == SubSeqs(n - 1) IN S \cup {Append(s, Row(n)) : s \in S}

\* What session.run can return.
RowLists == SubSeqs(MaxRows)

Obj(f) == [kind |-> "object", fields |-> f]

\* Request bodies of POST /query: not JSON, JSON but not an object, and
\* objects with each query_type, with fields missing, and with a
\* query_type that is not a string.
Bodies ==
    {[kind |-> "invalid", fields |-> <<>>], [kind |-> "array", fields |-> <<>>]}
    \cup {Obj([query_type |-> q, topic |-> "hello"]) :
             q \in {"vocabulary", "story", "culture", "grammar", "general", "poetry"}}
    \cup {Obj(<<>>),
          Obj([topic |-> "braai"]),
          Obj([query_type |-> "vocabulary"]),
          Obj([query_type |-> "vocabulary", topic |-> "braai", difficulty |-> "advanced"]),
          Obj([query_type |-> "story", topic |-> "braai", difficulty |-> "advanced"]),
          Obj([query_type |-> JsonArray, topic |-> "hello"])}

Routes == {"/query", "/health", "/tools"}

-----------------------------------------------------------------------------
(* Pure parts of the program *)

\* patterns: the five templates, each named here by its MATCH clause.
patterns ==
    [vocabulary |-> "MATCH (w:Word {language: 'Afrikaans'}) ... LIMIT 10",
     story      |-> "MATCH (s:Story) ... LIMIT 5",
     culture    |-> "MATCH (c:CulturalItem) ... LIMIT 5",
     grammar    |-> "MATCH (g:GrammarRule) ... LIMIT 5",
     general    |-> "MATCH (n) ... LIMIT 10"]

generate_cypher_query_vocab_default(query_type, topic, difficulty) ==
    IF query_type \in DOMAIN patterns THEN patterns[query_type]
    ELSE patterns["vocabulary"]

\* patterns.get(query_type, patterns["general"])
generate_cypher_query(query_type, topic, difficulty) ==
    IF query_type \in DOMAIN patterns THEN patterns[query_type]
    ELSE patterns["general"]

\* dict.get raises TypeError on an unhashable key.
Hashable(v) == v # JsonArray

\* body.get(key, default)
Get(body, key, default) ==
    IF key \in DOMAIN body.fields THEN body.fields[key] ELSE default

\* Truth value of what os.getenv returned.
Truthy(v) == v # None /\ v # ""

CredentialsPresentUriOnly == Truthy(env["NEO4J_URI"])

\* if neo4j_uri and neo4j_username and neo4j_password
CredentialsPresent ==
    /\ Truthy(env["NEO4J_URI"])
    /\ Truthy(env["NEO4J_USERNAME"])
    /\ Truthy(env["NEO4J_PASSWORD"])

mock_results_empty(topic, query_type) == <<>>

\* The mock response of /query.
mock_results(topic, query_type) ==
    <<[message |-> "Neo4j not connected", topic |-> topic, query_type |-> query_type]>>

query_result_error_row(records, failed) ==
    IF failed THEN <<[error |-> "Query failed"]>> ELSE records

\* What Neo4jNode.query returns: the records, or [] from the except branch.
query_result(records, failed) == IF failed THEN <<>> ELSE records

sessions_after_exit_leak(open, failed) == IF failed THEN open ELSE open - 1

\* Leaving `with self.driver.session() as session` closes the session,
\* on return and on exception alike.
sessions_after_exit(open, failed) == open - 1

processing_event(topic) == [status |-> "processing", query |-> topic]

result_event_one_based(result, i) ==
    [status |-> "result", data |-> result, index |-> i + 1]

\* i is enumerate's zero-based counter.
result_event(result, i) == [status |-> "result", data |-> result, index |-> i]

complete_event(results) == [status |-> "complete", total_results |-> Len(results)]

health_check_always_connected ==
    [status |-> "healthy",
     message |-> "Afrikaans Agent MCP Server is running!",
     neo4j_connected |-> TRUE]

\* The body of GET /health.
health_check ==
    [status |-> "healthy",
     message |-> "Afrikaans Agent MCP Server is running!",
     neo4j_connected |-> (neo4j_node # None)]

\* MCPToolNode.get_tool_schema(), by its name and required fields.
get_tool_schema ==
    [name |-> "query_afrikaans_knowledge_graph",
     required |-> <<"query_type", "topic">>]

should_close_always == TRUE

\* if neo4j_node: (shutdown_event)
should_close == neo4j_node # None

-----------------------------------------------------------------------------
(* State *)

\* A request slot before its request arrives.
IdleReq ==
    [pc |-> "idle", route |-> None, body |-> Obj(<<>>),
     query_type |-> None, topic |-> None, difficulty |-> None,
     cypher_query |-> None, used_db |-> FALSE, failed |-> FALSE,
     records |-> <<>>, results |-> <<>>, i |-> 0, sent |-> <<>>,
     response |-> None]

\* Positions inside the blocking call of Neo4jNode.query.
QueryPcs == {"session_open", "session_ran"}

\* Positions of generate_stream.
StreamPcs == {"stream_start", "yield_processing", "yield_result", "sleep",
              "yield_complete", "closed"}

\* Positions at which the handling of a request has ended.
EndPcs == {"idle", "closed", "error", "responded"}

\* The event loop's thread is inside Neo4jNode.query.
Busy == \E r \in Requests : req[r].pc \in QueryPcs

Init ==
    /\ env \in Environments
    /\ driver_raises \in (IF env = AllSet THEN BOOLEAN ELSE {FALSE})
    /\ app = "init"
    /\ neo4j_node = None
    /\ drivers_created = 0
    /\ drivers_closed = 0
    /\ sessions = 0
    /\ sessions_opened = 0
    /\ req = [r \in Requests |-> IdleReq]

-----------------------------------------------------------------------------
(* Lifecycle *)

\* startup_event
Startup ==
    /\ app = "init"
    /\ app' = "running"
    /\ IF CredentialsPresent /\ ~driver_raises
       THEN /\ neo4j_node' = Node
            /\ drivers_created' = drivers_created + 1
       ELSE /\ neo4j_node' = None
            /\ UNCHANGED drivers_created
    /\ UNCHANGED <<env, driver_raises, drivers_closed, sessions, sessions_opened, req>>

\* shutdown_event; the server runs it once no connection is being served.
Shutdown ==
    /\ app = "running"
    /\ \A r \in Requests : req[r].pc \in EndPcs
    /\ app' = "stopped"
    /\ drivers_closed' = IF should_close THEN drivers_closed + 1 ELSE drivers_closed
    /\ UNCHANGED <<env, driver_raises, neo4j_node, drivers_created, sessions,
                   sessions_opened, req>>

-----------------------------------------------------------------------------
(* Requests *)

Frame == UNCHANGED <<env, driver_raises, app, neo4j_node, drivers_created,
                     drivers_closed>>

\* A request arrives and its handler is started.
Receive(r) ==
    /\ app = "running" /\ ~Busy
    /\ req[r].pc = "idle"
    /\ \E route \in Routes :
         \E body \in (IF route = "/query" THEN Bodies ELSE {Obj(<<>>)}) :
           req' = [req EXCEPT ![r] = [@ EXCEPT !.pc = "received",
                                               !.route = route,
                                               !.body = body]]
    /\ Frame /\ UNCHANGED <<sessions, sessions_opened>>

\* GET /health
HealthCheck(r) ==
    /\ ~Busy
    /\ req[r].pc = "received" /\ req[r].route = "/health"
    /\ req' = [req EXCEPT ![r] = [@ EXCEPT !.pc = "responded",
                                           !.response = health_check]]
    /\ Frame /\ UNCHANGED <<sessions, sessions_opened>>

\* GET /tools
GetTools(r) ==
    /\ ~Busy
    /\ req[r].pc = "received" /\ req[r].route = "/tools"
    /\ req' = [req EXCEPT ![r] = [@ EXCEPT !.pc = "responded",
                                           !.response = [tools |-> <<get_tool_schema>>]]]
    /\ Frame /\ UNCHANGED <<sessions, sessions_opened>>

\* POST /query, a body that makes the handler raise: request.json() on a
\* body that is not JSON, body.get on a JSON value that is not an object,
\* patterns.get on an unhashable query_type.  The framework answers 500.
QueryRaises(r) ==
    /\ ~Busy
    /\ req[r].pc = "received" /\ req[r].route = "/query"
    /\ \/ req[r].body.kind # "object"
       \/ ~Hashable(Get(req[r].body, "query_type", "general"))
    /\ req' = [req EXCEPT ![r] = [@ EXCEPT !.pc = "error",
                                           !.response = "500 Internal Server Error"]]
    /\ Frame /\ UNCHANGED <<sessions, sessions_opened>>

\* The handler's locals after parsing and template selection.
Parsed(r) ==
    LET body == req[r].body
        query_type == Get(body, "query_type", "general")
        topic == Get(body, "topic", "")
        difficulty == Get(body, "difficulty", "beginner")
    IN [req[r] EXCEPT !.query_type = query_type,
                      !.topic = topic,
                      !.difficulty = difficulty,
                      !.cypher_query = generate_cypher_query(query_type, topic, difficulty)]

\* POST /query with no connection: parse, select the template, take the
\* mock rows and return the stream.
QueryMock(r) ==
    /\ ~Busy
    /\ req[r].pc = "received" /\ req[r].route = "/query"
    /\ req[r].body.kind = "object"
    /\ Hashable(Get(req[r].body, "query_type", "general"))
    /\ neo4j_node = None
    /\ req' = [req EXCEPT ![r] =
                 [Parsed(r) EXCEPT !.pc = "stream_start",
                                   !.results = mock_results(Parsed(r).topic,
                                                            Parsed(r).query_type)]]
    /\ Frame /\ UNCHANGED <<sessions, sessions_opened>>

\* POST /query with a connection: parse, select the template, call
\* neo4j_node.query, which opens a session.
QueryOpenSession(r) ==
    /\ ~Busy
    /\ req[r].pc = "received" /\ req[r].route = "/query"
    /\ req[r].body.kind = "object"
    /\ Hashable(Get(req[r].body, "query_type", "general"))
    /\ neo4j_node # None
    /\ req' = [req EXCEPT ![r] = [Parsed(r) EXCEPT !.pc = "session_open",
                                                   !.used_db = TRUE]]
    /\ sessions' = sessions + 1
    /\ sessions_opened' = sessions_opened + 1
    /\ Frame

\* session.run and the materialisation of its rows succeed.
SessionRunOk(r) ==
    /\ req[r].pc = "session_open"
    /\ \E rows \in RowLists :
         req' = [req EXCEPT ![r] = [@ EXCEPT !.pc = "session_ran",
                                             !.records = rows]]
    /\ Frame /\ UNCHANGED <<sessions, sessions_opened>>

\* session.run or the iteration of its result raises, possibly after some
\* rows were read.
SessionRunRaises(r) ==
    /\ req[r].pc = "session_open"
    /\ \E rows \in RowLists :
         req' = [req EXCEPT ![r] = [@ EXCEPT !.pc = "session_ran",
                                             !.records = rows,
                                             !.failed = TRUE]]
    /\ Frame /\ UNCHANGED <<sessions, sessions_opened>>

\* The with block is left, query returns (or its except branch does), and
\* the handler returns the stream.
QueryReturn(r) ==
    /\ req[r].pc = "session_ran"
    /\ sessions' = sessions_after_exit(sessions, req[r].failed)
    /\ req' = [req EXCEPT ![r] =
                 [@ EXCEPT !.pc = "stream_start",
                           !.records = <<>>,
                           !.results = query_result(req[r].records, req[r].failed)]]
    /\ Frame /\ UNCHANGED sessions_opened

closure_results_shared(r) == req["req1"].results

\* The list `results` that request r's generate_stream closes over.
closure_results(r) == req[r].results

\* What generate_stream yields next once its loop is at index i.
NextYield(r, i) ==
    LET results == closure_results(r) IN
    IF i < Len(results)
    THEN [req[r] EXCEPT !.pc = "yield_result",
                        !.i = i,
                        !.sent = Append(@, result_event(results[i + 1], i))]
    ELSE [req[r] EXCEPT !.pc = "yield_complete",
                        !.i = i,
                        !.sent = Append(@, complete_event(results))]

\* The transport starts the generator: it runs to its first yield.
StreamProcessing(r) ==
    /\ ~Busy
    /\ req[r].pc = "stream_start"
    /\ req' = [req EXCEPT ![r] =
                 [@ EXCEPT !.pc = "yield_processing",
                           !.sent = Append(@, processing_event(req[r].topic))]]
    /\ Frame /\ UNCHANGED <<sessions, sessions_opened>>

\* Resumed after the processing event: the loop starts.
StreamFirst(r) ==
    /\ ~Busy
    /\ req[r].pc = "yield_processing"
    /\ req' = [req EXCEPT ![r] = NextYield(r, 0)]
    /\ Frame /\ UNCHANGED <<sessions, sessions_opened>>

\* Resumed after a result event: await asyncio.sleep(0.1).
StreamSleep(r) ==
    /\ ~Busy
    /\ req[r].pc = "yield_result"
    /\ req' = [req EXCEPT ![r] = [@ EXCEPT !.pc = "sleep"]]
    /\ Frame /\ UNCHANGED <<sessions, sessions_opened>>

\* The delay is over: the loop goes on to the next row or ends.
StreamWake(r) ==
    /\ ~Busy
    /\ req[r].pc = "sleep"
    /\ req' = [req EXCEPT ![r] = NextYield(r, req[r].i + 1)]
    /\ Frame /\ UNCHANGED <<sessions, sessions_opened>>

\* Resumed after the complete event: the generator returns.
StreamClose(r) ==
    /\ ~Busy
    /\ req[r].pc = "yield_complete"
    /\ req' = [req EXCEPT ![r] = [@ EXCEPT !.pc = "closed"]]
    /\ Frame /\ UNCHANGED <<sessions, sessions_opened>>

Next ==
    \/ Startup
    \/ Shutdown
    \/ \E r \in Requests : Receive(r)
    \/ \E r \in Requests : HealthCheck(r)
    \/ \E r \in Requests : GetTools(r)
    \/ \E r \in Requests : QueryRaises(r)
    \/ \E r \in Requests : QueryMock(r)
    \/ \E r \in Requests : QueryOpenSession(r)
    \/ \E r \in Requests : SessionRunOk(r)
    \/ \E r \in Requests : SessionRunRaises(r)
    \/ \E r \in Requests : QueryReturn(r)
    \/ \E r \in Requests : StreamProcessing(r)
    \/ \E r \in Requests : StreamFirst(r)
    \/ \E r \in Requests : StreamSleep(r)
    \/ \E r \in Requests : StreamWake(r)
    \/ \E r \in Requests : StreamClose(r)

Spec == Init /\ [][Next]_vars

-----------------------------------------------------------------------------
(* Properties *)

\* The locals a request's body gives the handler, read off the body.
BodyQueryType(r) ==
    IF "query_type" \in DOMAIN req[r].body.fields
    THEN req[r].body.fields["query_type"] ELSE "general"

BodyTopic(r) ==
    IF "topic" \in DOMAIN req[r].body.fields THEN req[r].body.fields["topic"] ELSE ""

BodyDifficulty(r) ==
    IF "difficulty" \in DOMAIN req[r].body.fields
    THEN req[r].body.fields["difficulty"] ELSE "beginner"

\* The body is a JSON object whose query_type, if given, is a string.
WellFormed(r) ==
    /\ req[r].route = "/query"
    /\ req[r].body.kind = "object"
    /\ BodyQueryType(r) # JsonArray

\* The whole stream of a request with this topic and these rows.
ExpectedStream(topic, rows) ==
    <<[status |-> "processing", query |-> topic]>>
    \o [k \in 1..Len(rows) |-> [status |-> "result", data |-> rows[k], index |-> k - 1]]
    \o <<[status |-> "complete", total_results |-> Len(rows)]>>

\* How many events request r has been made to yield at its position.
Emitted(r) ==
    CASE req[r].pc = "stream_start" -> 0
      [] req[r].pc = "yield_processing" -> 1
      [] req[r].pc \in {"yield_result", "sleep"} -> req[r].i + 2
      [] req[r].pc \in {"yield_complete", "closed"} -> Len(req[r].results) + 2

\* C1: the stream of a request is, at every position, the prefix of
\* processing, result(results[0], 0), ..., result(results[n-1], n-1),
\* complete(n) that its position has reached, and once the generator has
\* returned it is that whole sequence of n + 2 events, complete last.
C1_StreamOrder ==
    \A r \in Requests :
        req[r].pc \in StreamPcs =>
            LET all == ExpectedStream(req[r].topic, req[r].results) IN
            /\ Emitted(r) <= Len(all)
            /\ req[r].sent = SubSeq(all, 1, Emitted(r))
            /\ req[r].pc = "closed" =>
                   /\ Len(req[r].sent) = Len(req[r].results) + 2
                   /\ req[r].sent[Len(req[r].sent)].status = "complete"

\* A stream of two rows has run to its end.
C1_Witness ==
    \E r \in Requests :
        /\ req[r].pc = "closed"
        /\ Len(req[r].results) = 2
        /\ Len(req[r].sent) = 4

\* C2: every handled request got the template of its query_type, one of
\* five different templates, and the general one for any other string;
\* requests with the same query_type got the same template whatever
\* their topic and difficulty.
C2_TemplateSelection ==
    /\ Cardinality({patterns[k] : k \in DOMAIN patterns}) = 5
    /\ \A r \in Requests :
         req[r].cypher_query # None =>
            /\ BodyQueryType(r) = "vocabulary" =>
                   req[r].cypher_query = patterns["vocabulary"]
            /\ BodyQueryType(r) = "story" => req[r].cypher_query = patterns["story"]
            /\ BodyQueryType(r) = "culture" => req[r].cypher_query = patterns["culture"]
            /\ BodyQueryType(r) = "grammar" => req[r].cypher_query = patterns["grammar"]
            /\ BodyQueryType(r) \notin {"vocabulary", "story", "culture", "grammar"} =>
                   req[r].cypher_query = patterns["general"]
    /\ \A r, q \in Requests :
         /\ req[r].cypher_query # None
         /\ req[q].cypher_query # None
         /\ BodyQueryType(r) = BodyQueryType(q)
         => req[r].cypher_query = req[q].cypher_query

\* An unknown query_type got the general template while a vocabulary
\* request with another topic and difficulty got its own.
C2_Witness ==
    \E r, q \in Requests :
        /\ BodyQueryType(r) = "poetry"
        /\ req[r].cypher_query = patterns["general"]
        /\ BodyQueryType(q) = "vocabulary"
        /\ BodyDifficulty(q) = "advanced"
        /\ req[q].cypher_query = patterns["vocabulary"]

\* C3: a request whose query raised is not answered by an error: query
\* returned the empty list, only processing and complete events are sent,
\* and the finished stream is processing, complete(0), the stream of a
\* query that matched nothing.
C3_FailureIsEmpty ==
    \A r \in Requests :
        req[r].failed =>
            /\ req[r].used_db
            /\ req[r].pc \in {"session_ran"} \cup StreamPcs
            /\ req[r].pc \in StreamPcs => req[r].results = <<>>
            /\ \A k \in 1..Len(req[r].sent) :
                   req[r].sent[k].status \in {"processing", "complete"}
            /\ req[r].pc = "closed" =>
                   /\ req[r].sent = <<[status |-> "processing", query |-> BodyTopic(r)],
                                      [status |-> "complete", total_results |-> 0]>>
                   /\ \A q \in Requests :
                          /\ req[q].pc = "closed" /\ req[q].used_db /\ ~req[q].failed
                          /\ req[q].results = <<>> /\ BodyTopic(q) = BodyTopic(r)
                          => req[q].sent = req[r].sent

\* A query raised after reading a row and its stream has ended, beside a
\* query that matched nothing.
C3_Witness ==
    \E r, q \in Requests :
        /\ req[r].failed /\ req[r].pc = "closed" /\ Len(req[r].sent) = 2
        /\ req[q].used_db /\ ~req[q].failed /\ req[q].pc = "closed"
        /\ req[q].results = <<>>

\* C4: with no connection, a POST /query whose body is an object with a
\* string query_type opens no session and streams processing, one result
\* with index 0 carrying the row (message, topic, query_type), complete(1).
C4_MockStream ==
    neo4j_node = None =>
        /\ sessions_opened = 0
        /\ \A r \in Requests :
             WellFormed(r) /\ req[r].pc # "received" =>
                LET row == [message |-> "Neo4j not connected",
                            topic |-> BodyTopic(r),
                            query_type |-> BodyQueryType(r)]
                IN /\ req[r].pc \in StreamPcs
                   /\ ~req[r].used_db
                   /\ req[r].results = <<row>>
                   /\ req[r].pc = "closed" =>
                          req[r].sent =
                              <<[status |-> "processing", query |-> BodyTopic(r)],
                                [status |-> "result", data |-> row, index |-> 0],
                                [status |-> "complete", total_results |-> 1]>>

\* The test client's request has been streamed to its end in mock mode.
C4_Witness ==
    \E r \in Requests :
        /\ neo4j_node = None
        /\ req[r].pc = "closed"
        /\ BodyQueryType(r) = "vocabulary"
        /\ BodyTopic(r) = "braai"
        /\ Len(req[r].sent) = 3

\* C5: startup always completes; after it the handle is set exactly when
\* all three values are present and non-empty and the creation of the
\* connection did not raise, and with no handle no request uses the
\* database.
C5_StartupMockMode ==
    /\ app = "init" => ENABLED Startup
    /\ app # "init" =>
         /\ neo4j_node # None <=>
                /\ \A n \in EnvNames : env[n] \notin {None, ""}
                /\ ~driver_raises
         /\ neo4j_node = None => \A r \in Requests : ~req[r].used_db

\* All three values are set, the creation of the connection raised, and
\* a request has been answered from the mock branch.
C5_Witness ==
    /\ app = "running"
    /\ env = AllSet /\ driver_raises
    /\ neo4j_node = None
    /\ \E r \in Requests : req[r].pc = "closed" /\ Len(req[r].results) = 1

\* C6: no POST /query is answered by an error, and missing fields take
\* their defaults.
C6_NeverRejects ==
    \A r \in Requests :
        req[r].route = "/query" /\ req[r].pc # "received" =>
            /\ req[r].pc # "error"
            /\ req[r].query_type = BodyQueryType(r)
            /\ req[r].topic = BodyTopic(r)
            /\ req[r].difficulty = BodyDifficulty(r)

C7_Counts ==
    /\ drivers_created <= 1
    /\ drivers_closed <= drivers_created
    /\ app # "stopped" => drivers_closed = 0
    /\ app # "init" => (neo4j_node # None <=> drivers_created = 1)

C7_RequestsKeepHandle ==
    app = "running" /\ app' = "running" =>
        /\ neo4j_node' = neo4j_node
        /\ drivers_created' = drivers_created
        /\ drivers_closed' = drivers_closed

\* C7: the connection is created at most once and closed at most once,
\* at shutdown and only if it was created, and no step of a request
\* changes the handle or creates or closes a connection.
C7_ConnectionLifecycle == []C7_Counts /\ [][C7_RequestsKeepHandle]_vars

\* Two requests used the connection and the process shut down and closed it.
C7_Witness ==
    /\ app = "stopped"
    /\ drivers_created = 1 /\ drivers_closed = 1
    /\ \A r \in Requests : req[r].used_db /\ req[r].pc = "closed"

\* C8: a session is open exactly while a call of query is in progress,
\* each call opened one session, and none is open once a call returned,
\* so none is open when a stream event is sent.
C8_SessionsReleased ==
    /\ sessions = Cardinality({r \in Requests : req[r].pc \in QueryPcs})
    /\ ~Busy => sessions = 0
    /\ sessions_opened = Cardinality({r \in Requests : req[r].used_db})
    /\ \A r \in Requests :
         req[r].pc \in StreamPcs \ {"stream_start"} /\ ~Busy => sessions = 0

\* Both requests called query, one of which raised, and both returned.
C8_Witness ==
    /\ sessions_opened = 2
    /\ sessions = 0
    /\ \E r \in Requests : req[r].failed /\ req[r].pc = "yield_processing"

\* C9 as stated: the answer of GET /health has status healthy and a field
\* database_connected that tells whether the handle is set.
C9_DatabaseConnectedField ==
    \A r \in Requests :
        req[r].route = "/health" /\ req[r].pc = "responded" =>
            /\ req[r].response.status = "healthy"
            /\ "database_connected" \in DOMAIN req[r].response
            /\ req[r].response["database_connected"] = (neo4j_node # None)

\* C9, amended: the answer of GET /health has status healthy and a field
\* neo4j_connected that is true exactly when the handle is set (false
\* when the database is not configured), and the handle is what it was.
C9_Neo4jConnectedField ==
    \A r \in Requests :
        req[r].route = "/health" /\ req[r].pc = "responded" =>
            /\ req[r].response.status = "healthy"
            /\ DOMAIN req[r].response = {"status", "message", "neo4j_connected"}
            /\ req[r].response["neo4j_connected"] = (neo4j_node # None)
            /\ env # AllSet => req[r].response["neo4j_connected"] = FALSE
            /\ neo4j_node # None <=> drivers_created = 1

\* GET /health was answered while the handle was set.
C9_Witness ==
    \E r \in Requests :
        /\ req[r].route = "/health" /\ req[r].pc = "responded"
        /\ req[r].response["neo4j_connected"] = TRUE

C10_OwnEvents ==
    \A r \in Requests :
        \A k \in 1..Len(req[r].sent) :
            LET e == req[r].sent[k] IN
            /\ e.status = "processing" => k = 1 /\ e.query = BodyTopic(r)
            /\ e.status = "result" =>
                   /\ e.index = k - 2
                   /\ e.index < Len(req[r].results)
                   /\ e.data = req[r].results[e.index + 1]
            /\ e.status = "complete" => e.total_results = Len(req[r].results)

C10_StepIsLocal ==
    \A r \in Requests :
        /\ req[r].pc \in StreamPcs => req'[r].results = req[r].results
        /\ req'[r] # req[r] => \A q \in Requests \ {r} : req'[q] = req[q]

\* C10: whatever the interleaving, every event of a stream is about its
\* own request (its topic, its rows under their indices, its count), a
\* step of one request changes nothing of another, and the rows of a
\* request do not change once its stream exists.
C10_StreamsIsolated == []C10_OwnEvents /\ [][C10_StepIsLocal]_vars

\* Two streams with different topics and different rows are both at the
\* per-row delay.
C10_Witness ==
    /\ req["req1"].pc = "sleep" /\ req["req2"].pc = "sleep"
    /\ req["req1"].results # req["req2"].results
    /\ req["req1"].topic # req["req2"].topic
    /\ req["req1"].used_db /\ req["req2"].used_db

====
